---- MODULE Spec2Model ----
(***************************************************************************)
(* Model of the frame-synthesis and video-assembly pipeline of             *)
(* src/src/main.rs (fn main): trajectory sampling, the per-frame           *)
(* compositor loop, the proof-panel frames, and the video assembler.       *)
(*                                                                         *)
(* Distances are integers in metres.  The chart draws x in kilometres      *)
(* (every x is divided by 1000.0 in the source); that is one uniform       *)
(* change of unit applied to bounds, paths, lines and markers alike, so    *)
(* the model keeps metres throughout.  The f64 arithmetic on distances is   *)
(* modelled by integer arithmetic with truncation; the f64 expression of   *)
(* the animation progress (main.rs:148) is modelled with its IEEE-754      *)
(* binary64 roundings.                                                     *)
(***************************************************************************)
EXTENDS Integers, Sequences, FiniteSets, TLC

\* ------------------------------------------------------------------ bounds
\* fps ranges over 1..MaxFps (the source fixes fps = 15)
MaxFps == 2
\* video_duration ranges over 0..MaxDuration (the source fixes 15)
MaxDuration == 4
\* at most MaxSkips stored frames fail to decode in one run
MaxSkips == 1
\* an earlier run may have left frame files 0..n-1, n <= MaxStale
MaxStale == 4

VARIABLES
    fps,                    \* main.rs:60
    video_duration,         \* main.rs:61
    scenario,               \* main.rs:46-66   results of the physics model
    pc,                     \* position in main
    i,                      \* the running loop index (i or j in the source)
    chart_x_max,            \* main.rs:75
    chart_y_max,            \* main.rs:81
    trajectory_points,      \* main.rs:87
    animation_points,       \* main.rs:96
    operational_range_line, \* main.rs:102
    target_distance_line,   \* main.rs:106
    proof_lines,            \* main.rs:442
    proof_img,              \* main.rs:517   the text drawn on the proof panel
    store,                  \* the frames directory: file index -> frame
    writes,                 \* file index -> writes by this run
    reads,                  \* file index -> imread calls by this run
    skipped,                \* indices whose imread gave an empty image
    video,                  \* [src, frame] handed to video_writer.write, in order
    stream,                 \* video_writer: "none" | "open" | "released"
    releases,               \* times the stream went from open to released
    printed,                \* the success message was printed
    err                     \* the step whose Result was Err, or "none"

vars == <<fps, video_duration, scenario, pc, i, chart_x_max, chart_y_max,
          trajectory_points, animation_points, operational_range_line,
          target_distance_line, proof_lines, proof_img, store, writes,
          reads, skipped, video, stream, releases, printed, err>>

config == <<fps, video_duration, scenario>>
layout == <<chart_x_max, chart_y_max>>
samples == <<trajectory_points, animation_points>>
reflines == <<operational_range_line, target_distance_line>>
panel == <<proof_lines, proof_img>>
output == <<reads, skipped, video>>

\* ----------------------------------------------------------------- helpers
Max(a, b) == IF a >= b THEN a ELSE b
Min(a, b) == IF a <= b THEN a ELSE b

\* main.rs:62
total_frames == fps * video_duration
\* main.rs:86
trajectory_resolution == total_frames * 2
\* main.rs:630 and 654: the proof panel is held for fps * 3 frames
hold_frames == fps * 3

\* Every file index the model tracks.
FrameIds == 0 .. (Max(MaxFps * MaxDuration + MaxFps * 3, MaxStale) - 1)

\* Results of the physics model (main.rs:53-66) for three scenarios, in
\* metres: the reference one, two coincident points, and a slower rocket
\* whose theoretical range is below the operational range.
Scenarios ==
    { [actual_distance |-> 142282, range_theoretical |-> 48532,
       max_h |-> 12133, max_range_operational |-> 15000],
      [actual_distance |-> 0, range_theoretical |-> 48532,
       max_h |-> 12133, max_range_operational |-> 15000],
      [actual_distance |-> 142282, range_theoretical |-> 9174,
       max_h |-> 2294, max_range_operational |-> 15000] }

\* main.rs:71-73
max_distance(s) ==
    Max(Max(s.actual_distance, s.range_theoretical), s.max_range_operational)

\* main.rs:75-79
ChartXMax(s) ==
    IF s.range_theoretical < max_distance(s)
    THEN Max((s.range_theoretical * 5) \div 2, 25000)
    ELSE Max((max_distance(s) * 11) \div 10, 25000)

\* main.rs:81
ChartYMax(s) == Max((s.max_h * 3) \div 2, 800)

\* main.rs:90-93: the dense point of step k.  x = v0 cos(theta) t and
\* y = max(v0 sin(theta) t - g t^2 / 2, 0) with t = t_flight k / (res - 1),
\* that is x = range k / (res - 1) and y = 4 max_h s (1 - s), s = k/(res-1).
DensePoint(s, k, res) ==
    << (s.range_theoretical * k) \div (res - 1),
       Max((4 * s.max_h * k * (res - 1 - k)) \div ((res - 1) * (res - 1)), 0) >>

\* A file of the frames directory.
NoRender == [drawn |-> FALSE]
NoFrame == [run |-> "none", kind |-> "none", idx |-> 0 - 1, render |-> NoRender]
StaleFrame(k) == [run |-> "old", kind |-> "stale", idx |-> k, render |-> NoRender]

Init ==
    /\ fps \in 1 .. MaxFps
    /\ video_duration \in 0 .. MaxDuration
    /\ scenario \in Scenarios
    /\ pc = "start"
    /\ i = 0
    /\ chart_x_max = 0
    /\ chart_y_max = 0
    /\ trajectory_points = <<>>
    /\ animation_points = <<>>
    /\ operational_range_line = <<>>
    /\ target_distance_line = <<>>
    /\ proof_lines = <<>>
    /\ proof_img = <<>>
    /\ \E n \in 0 .. MaxStale :
          store = [k \in FrameIds |-> IF k < n THEN StaleFrame(k) ELSE NoFrame]
    /\ writes = [k \in FrameIds |-> 0]
    /\ reads = [k \in FrameIds |-> 0]
    /\ skipped = {}
    /\ video = <<>>
    /\ stream = "none"
    /\ releases = 0
    /\ printed = FALSE
    /\ err = "none"

\* main.rs:46-81: the scenario, the physics results and the chart bounds.
Setup ==
    /\ pc = "start"
    /\ chart_x_max' = ChartXMax(scenario)
    /\ chart_y_max' = ChartYMax(scenario)
    /\ pc' = "mkdir"
    /\ UNCHANGED <<config, panel, i, samples, reflines, store, writes, output,
                   stream, releases, printed, err>>


\* The stream a failed (Err) step leaves behind: main returns through `?`,
\* video_writer goes out of scope and its destructor finalises the stream
\* if it is still open (main.rs:637-668, the scope of video_writer).
LeakVideoWriter(s) == s
DropVideoWriter(s) == IF s = "open" THEN "released" ELSE s

\* One more release when the stream goes from open to released.
ReleaseCount(s, t, n) == IF s = "open" /\ t = "released" THEN n + 1 ELSE n

\* `?` on an Err: main returns at once with that error (main.rs:45, and
\* every `?` of main).
IgnoreErr(step) ==
    /\ pc' = pc
    /\ err' = step
    /\ UNCHANGED <<stream, releases>>
ReturnErr(step) ==
    /\ pc' = "aborted"
    /\ err' = step
    /\ stream' = DropVideoWriter(stream)
    /\ releases' = ReleaseCount(stream, stream', releases)

\* A step that succeeded and leaves the stream alone.
Continue(p) ==
    /\ pc' = p
    /\ UNCHANGED <<err, stream, releases>>

\* main.rs:84  fs::create_dir_all(frame_dir)?
CreateDir ==
    /\ pc = "mkdir"
    /\ \E ok \in BOOLEAN :
          IF ok THEN Continue("dense") ELSE ReturnErr("create_dir_all")
    /\ UNCHANGED <<config, panel, i, layout, samples, reflines, store, writes,
                   output, printed>>

\* main.rs:89  for i in 0..trajectory_resolution
DenseLoopGuard(k) == k < trajectory_resolution

\* main.rs:89-94: one iteration of the dense sampling loop, or its exit.
SampleDense ==
    /\ pc = "dense"
    /\ IF DenseLoopGuard(i)
       THEN /\ trajectory_points' =
                  Append(trajectory_points,
                         DensePoint(scenario, i, trajectory_resolution))
            /\ i' = i + 1
            /\ Continue("dense")
       ELSE /\ i' = 0
            /\ Continue("anim")
            /\ UNCHANGED trajectory_points
    /\ UNCHANGED <<config, panel, layout, animation_points, reflines, store, writes,
                   output, printed>>

\* main.rs:97  for i in 0..total_frames
AnimLoopGuardInclusive(k) == k <= total_frames
AnimLoopGuard(k) == k < total_frames

\* main.rs:98  (i * trajectory_resolution / total_frames)
\*                 .min(trajectory_resolution - 1)
AnimIdxNext(k) ==
    Min(((k + 1) * trajectory_resolution) \div total_frames,
        trajectory_resolution - 1)
AnimIdx(k) ==
    Min((k * trajectory_resolution) \div total_frames,
        trajectory_resolution - 1)

\* main.rs:97-100: one iteration of the animation sampling loop, or its
\* exit.  The body divides by total_frames (a panic when it is 0) and
\* indexes trajectory_points (a panic when idx is out of bounds).
SampleAnimation ==
    /\ pc = "anim"
    /\ IF AnimLoopGuard(i)
       THEN IF total_frames = 0
            THEN /\ Continue("panicked")
                 /\ UNCHANGED <<i, animation_points>>
            ELSE IF AnimIdx(i) >= Len(trajectory_points)
                 THEN /\ Continue("panicked")
                      /\ UNCHANGED <<i, animation_points>>
                 ELSE /\ animation_points' =
                            Append(animation_points,
                                   trajectory_points[AnimIdx(i) + 1])
                      /\ i' = i + 1
                      /\ Continue("anim")
       ELSE /\ i' = 0
            /\ Continue("lines")
            /\ UNCHANGED animation_points
    /\ UNCHANGED <<config, panel, layout, trajectory_points, reflines, store,
                   writes, output, printed>>

\* main.rs:102-106: the two reference lines, each from y = 0 to 80% of
\* chart_y_max.
ReferenceLines ==
    /\ pc = "lines"
    /\ operational_range_line' =
          << <<scenario.max_range_operational, 0>>,
             <<scenario.max_range_operational, (chart_y_max * 8) \div 10>> >>
    /\ target_distance_line' =
          << <<scenario.actual_distance, 0>>,
             <<scenario.actual_distance, (chart_y_max * 8) \div 10>> >>
    /\ i' = 0
    /\ Continue("render")
    /\ UNCHANGED <<config, panel, layout, samples, store, writes, output, printed>>


\* The file name of frame n is frames/frame_{n:05}.png; the frame files are
\* identified by n.  main.rs:109: animation frame k goes to index k.
AnimFrameIndex(k) == k
\* main.rs:631: proof-panel frame j goes to index total_frames + j.
ProofFrameIndexFromZero(j) == j
ProofFrameIndex(j) == total_frames + j
\* main.rs:646: the assembler reads animation frame k from index k.
AsmAnimIndex(k) == k
\* main.rs:655: the assembler reads proof-panel frame j from index
\* total_frames + j.
AsmProofIndexFromZero(j) == j
AsmProofIndex(j) == total_frames + j

\* Writing a file creates it or replaces its content (BitMapBackend's save
\* at main.rs:111/439, imwrite at main.rs:632).
WriteIfAbsent(st, n, frame) ==
    IF st[n] = NoFrame THEN [st EXCEPT ![n] = frame] ELSE st
WriteFile(st, n, frame) == [st EXCEPT ![n] = frame]

\* 2^n, and 2^n modulo m.
RECURSIVE Pow2(_)
Pow2(n) == IF n = 0 THEN 1 ELSE 2 * Pow2(n - 1)
RECURSIVE Pow2Mod(_, _)
Pow2Mod(n, m) == IF n = 0 THEN 1 % m ELSE (2 * Pow2Mod(n - 1, m)) % m

\* The least j with a * 2^j >= t, for 1 <= a <= t: the quotient a / t lies
\* in the binade [2^-j, 2^(1-j)).
RECURSIVE BinadeShift(_, _)
BinadeShift(a, t) == IF a >= t THEN 0 ELSE 1 + BinadeShift(2 * a, t)

\* The largest e with 2^e <= n, for n >= 1.
RECURSIVE FloorLog2(_)
FloorLog2(n) == IF n < 2 THEN 0 ELSE 1 + FloorLog2(n \div 2)

\* main.rs:148  (a as f64 / t as f64 * (2 t) as f64) as usize for
\* 1 <= a <= t, with the two binary64 roundings (round to nearest, ties to
\* even).  The quotient is rounded to q = m / 2^k with a 53-bit m and
\* k = 52 + BinadeShift(a, t); m * t = a * 2^k + d, where d is the rounding
\* error of the division scaled by t, so the exact product q * 2t is
\* 2a + d / 2^(k-1).  It rounds to 2a unless d < 0 and |d| / 2^(k-1) is
\* more than half the gap between 2a and the binary64 number below it (a
\* tie goes to 2a, whose mantissa is even); then the product is below 2a
\* and the cast truncates it to 2a - 1.
F64QuotientTimesTwice(a, t) ==
    LET j == BinadeShift(a, t)
        k == 52 + j
        r == (a * Pow2Mod(k, t)) % t
        floor_odd == ((a * Pow2Mod(k, 2 * t)) % (2 * t)) \div t = 1
        round_up == 2 * r > t \/ (2 * r = t /\ floor_odd)
        d == (IF round_up THEN t ELSE 0) - r
        e == FloorLog2(2 * a)
        gap_exp == IF Pow2(e) = 2 * a THEN e + j - 3 ELSE e + j - 2
    IN  IF d < 0 /\ (0 - d) * 8 > Pow2(gap_exp + 3)
        THEN 2 * a - 1
        ELSE 2 * a

\* main.rs:148  ((i + 1) as f64 / total_frames as f64
\*                  * trajectory_resolution as f64) as usize,
\* where trajectory_resolution is total_frames * 2 (main.rs:86).
animation_progress(k) == F64QuotientTimesTwice(k + 1, total_frames)

\* main.rs:149-153  .take(animation_progress.min(trajectory_points.len()))
ActiveLen(k) == Min(animation_progress(k), Len(trajectory_points))

\* main.rs:125: the axis bounds the chart of frame k is built with.
ChartBoundsFromMarker(k) ==
    << Max((animation_points[k + 1][1] * 11) \div 10, 25000), chart_y_max >>
ChartBounds(k) == << chart_x_max, chart_y_max >>

\* main.rs:202  if i > 5
TrailDrawnFromFive(k) == k >= 5
TrailDrawn(k) == k > 5

\* main.rs:203-209  animation_points.iter().skip(trail_start).take(6)
TrailPoints(k) ==
    LET trail_start == Max(k - 5, 0)
    IN  SubSeq(animation_points, trail_start + 1,
               Min(trail_start + 6, Len(animation_points)))

\* main.rs:227-421: the legend entries that carry a value of the scenario
\* (the remaining entries are fixed strings).  One decimal is kept as
\* tenths.
LegendEntries(s) ==
    LET shortfall == s.actual_distance - s.max_range_operational
    IN  << <<"Max Range", s.max_range_operational \div 1000>>,
           <<"Distance", s.actual_distance \div 100>>,
           <<"Shortfall", shortfall \div 100>>,
           <<"TOO FAR", (s.actual_distance * 10) \div s.max_range_operational>>,
           <<"Physics violation", (shortfall * 100) \div s.max_range_operational>>,
           <<"R", s.range_theoretical \div 100>> >>

\* main.rs:111-437: what the compositor draws into frame k.
RenderFrame(k) ==
    [drawn |-> TRUE,
     x_max |-> ChartBounds(k)[1],
     y_max |-> ChartBounds(k)[2],
     full_path_len |-> Len(trajectory_points),
     active_len |-> ActiveLen(k),
     operational_range_line |-> operational_range_line,
     target_distance_line |-> target_distance_line,
     marker |-> animation_points[k + 1],
     trail_drawn |-> TrailDrawn(k),
     trail |-> IF TrailDrawn(k) THEN TrailPoints(k) ELSE <<>>,
     legend |-> LegendEntries(scenario)]

AnimFrame(k) ==
    [run |-> "new", kind |-> "anim", idx |-> AnimFrameIndex(k),
     render |-> RenderFrame(k)]
ProofFrame(j) ==
    [run |-> "new", kind |-> "proof", idx |-> ProofFrameIndex(j),
     render |-> NoRender]

\* main.rs:108-440: one iteration of the compositor loop (render frame i and
\* persist it with root.present()?), or the loop's exit.
ComposeFrame ==
    /\ pc = "render"
    /\ IF i < total_frames
       THEN \E ok \in BOOLEAN :
               IF ok
               THEN /\ store' = WriteFile(store, AnimFrameIndex(i), AnimFrame(i))
                    /\ writes' = [writes EXCEPT ![AnimFrameIndex(i)] = @ + 1]
                    /\ i' = i + 1
                    /\ Continue("render")
               ELSE /\ ReturnErr("present")
                    /\ UNCHANGED <<i, store, writes>>
       ELSE /\ i' = 0
            /\ Continue("panel")
            /\ UNCHANGED <<store, writes>>
    /\ UNCHANGED <<config, panel, layout, samples, reflines, output, printed>>

\* main.rs:6-7
WIDTH == 1920
HEIGHT == 1080

\* A line of the proof panel, as far as the style rules look at it: how it
\* starts (the no-entry sign, the microscope sign, a bullet, or anything
\* else) and which of the searched substrings it contains ("rule" is the
\* separator-rule character).
PlainLine == [prefix |-> "other", words |-> {}]
KeywordLine(w) == [prefix |-> "other", words |-> {w}]

\* main.rs:442-515: the 46 lines of the proof panel.  Only line 4
\* (SPECIFICATIONS), line 12 (VERIFICATION), the verdict and conclusion
\* lines 40 and 42 (IMPOSSIBLE when range_shortfall > 0) and line 41
\* (COMPLETE) contain a searched substring: the separator of line 2 is made
\* of "=" and the bullets are "*", which no rule looks for.
ProofLines(s) ==
    LET range_shortfall == s.actual_distance - s.max_range_operational
        verdict == IF range_shortfall > 0
                   THEN KeywordLine("IMPOSSIBLE") ELSE PlainLine
    IN  [k \in 1 .. 46 |->
            CASE k = 4 -> KeywordLine("SPECIFICATIONS")
              [] k = 12 -> KeywordLine("VERIFICATION")
              [] k = 40 -> verdict
              [] k = 41 -> KeywordLine("COMPLETE")
              [] k = 42 -> verdict
              [] OTHER -> PlainLine]

\* main.rs:567-580: (font_scale in tenths, colour) of a left-column line.
LeftStyle(text) ==
    IF text.prefix = "no_entry" \/ "IMPOSSIBLE" \in text.words
          \/ "FALSE" \in text.words
    THEN <<8, <<0, 0, 200>>>>
    ELSE IF text.prefix = "microscope" \/ "COMPLETE" \in text.words
    THEN <<8, <<0, 150, 0>>>>
    ELSE IF "SPECIFICATIONS" \in text.words \/ "VERIFICATION" \in text.words
    THEN <<7, <<200, 0, 0>>>>
    ELSE IF "rule" \in text.words
    THEN <<6, <<100, 100, 100>>>>
    ELSE IF text.prefix = "bullet"
    THEN <<6, <<0, 0, 0>>>>
    ELSE <<7, <<0, 0, 0>>>>

\* main.rs:602-615: (font_scale in tenths, colour) of a right-column line.
RightStyleBulletFirst(text) ==
    IF text.prefix = "bullet"
    THEN <<6, <<0, 0, 0>>>>
    ELSE LeftStyle(text)
RightStyle(text) ==
    IF text.prefix = "no_entry" \/ "IMPOSSIBLE" \in text.words
          \/ "FALSE" \in text.words
    THEN <<8, <<0, 0, 200>>>>
    ELSE IF text.prefix = "microscope" \/ "COMPLETE" \in text.words
    THEN <<8, <<0, 150, 0>>>>
    ELSE IF "SPECIFICATIONS" \in text.words \/ "VERIFICATION" \in text.words
    THEN <<7, <<200, 0, 0>>>>
    ELSE IF "rule" \in text.words
    THEN <<6, <<100, 100, 100>>>>
    ELSE IF text.prefix = "bullet"
    THEN <<6, <<0, 0, 0>>>>
    ELSE <<7, <<0, 0, 0>>>>

\* main.rs:561-565 / 596-600: the lines of a column that are drawn; the
\* loop breaks at the first line whose y = 135 + i * 35 is below HEIGHT - 50.
DrawnCount(column) ==
    Cardinality({k \in 0 .. (Len(column) - 1) :
                    \A m \in 0 .. k : 135 + m * 35 <= HEIGHT - 50})

\* main.rs:556-558
mid_point == Len(proof_lines) \div 2
left_column == SubSeq(proof_lines, 1, mid_point)
right_column == SubSeq(proof_lines, mid_point + 1, Len(proof_lines))

\* main.rs:545
center_x == WIDTH \div 2

\* main.rs:560-593: the put_text calls of the left column.
DrawLeftColumn ==
    [k \in 1 .. DrawnCount(left_column) |->
        [column |-> "left", x |-> 30, y |-> 135 + (k - 1) * 35,
         text |-> left_column[k], style |-> LeftStyle(left_column[k])]]

\* main.rs:595-628: the put_text calls of the right column.
DrawRightColumn ==
    [k \in 1 .. DrawnCount(right_column) |->
        [column |-> "right", x |-> center_x + 30, y |-> 135 + (k - 1) * 35,
         text |-> right_column[k], style |-> RightStyle(right_column[k])]]

\* main.rs:442-515: the proof lines are built from the scenario.
BuildProofLines ==
    /\ pc = "panel"
    /\ proof_lines' = ProofLines(scenario)
    /\ Continue("panel_draw")
    /\ UNCHANGED <<config, proof_img, i, layout, samples, reflines, store,
                   writes, output, printed>>

\* main.rs:517-628: the proof-panel image is drawn in memory: banner,
\* divider, then the left and the right column.
DrawProofPanel ==
    /\ pc = "panel_draw"
    /\ \E ok \in BOOLEAN :
          IF ok
          THEN /\ proof_img' = DrawLeftColumn \o DrawRightColumn
               /\ Continue("proof")
          ELSE /\ ReturnErr("proof_panel")
               /\ UNCHANGED proof_img
    /\ UNCHANGED <<config, proof_lines, i, layout, samples, reflines, store,
                   writes, output, printed>>

\* main.rs:630-633: one proof-panel frame is written, or the loop's exit.
WriteProofFrame ==
    /\ pc = "proof"
    /\ IF i < hold_frames
       THEN \E ok \in BOOLEAN :
               IF ok
               THEN /\ store' = WriteFile(store, ProofFrameIndex(i), ProofFrame(i))
                    /\ writes' = [writes EXCEPT ![ProofFrameIndex(i)] = @ + 1]
                    /\ i' = i + 1
                    /\ Continue("proof")
               ELSE /\ ReturnErr("imwrite")
                    /\ UNCHANGED <<i, store, writes>>
       ELSE /\ i' = 0
            /\ Continue("open")
            /\ UNCHANGED <<store, writes>>
    /\ UNCHANGED <<config, panel, layout, samples, reflines, output, printed>>

\* main.rs:635-643: the video stream is opened.
OpenStream ==
    /\ pc = "open"
    /\ \E ok \in BOOLEAN :
          IF ok
          THEN /\ pc' = "asm_anim"
               /\ stream' = "open"
               /\ UNCHANGED <<err, releases>>
          ELSE ReturnErr("VideoWriter::new")
    /\ UNCHANGED <<config, panel, i, layout, samples, reflines, store, writes,
                   output, printed>>

\* main.rs:649 / 658  if !img.empty() { video_writer.write(&img)?; }
EncodeAlways(empty) == TRUE
EncodeIfDecoded(empty) == ~empty

\* main.rs:647 / 656: the image imread decodes from file n, identified by
\* the file it came from, the run that wrote it and what it shows.
Decoded(n) == [src |-> n, run |-> store[n].run, kind |-> store[n].kind]

\* main.rs:646-651 and 655-660: frame n is read and, unless the image is
\* empty, written to the stream; then the loop goes on at `again`.
AssembleStep(n, again) ==
    \E out \in {"decoded", "empty", "imread_err", "write_err"} :
        /\ out = "decoded" => store[n] # NoFrame
        /\ out = "write_err" => store[n] # NoFrame
        /\ out = "empty" => (store[n] = NoFrame \/ Cardinality(skipped) < MaxSkips)
        /\ reads' = [reads EXCEPT ![n] = @ + 1]
        /\ CASE out = "imread_err" ->
                  /\ ReturnErr("imread")
                  /\ UNCHANGED <<i, skipped, video>>
             [] out = "write_err" ->
                  /\ ReturnErr("write")
                  /\ UNCHANGED <<i, skipped, video>>
             [] out = "empty" ->
                  /\ skipped' = skipped \cup {n}
                  /\ video' = IF EncodeIfDecoded(TRUE)
                              THEN Append(video, Decoded(n)) ELSE video
                  /\ i' = i + 1
                  /\ Continue(again)
             [] out = "decoded" ->
                  /\ video' = IF EncodeIfDecoded(FALSE)
                              THEN Append(video, Decoded(n)) ELSE video
                  /\ i' = i + 1
                  /\ UNCHANGED skipped
                  /\ Continue(again)

\* main.rs:645-652
AssembleAnimation ==
    /\ pc = "asm_anim"
    /\ IF i < total_frames
       THEN AssembleStep(AsmAnimIndex(i), "asm_anim")
       ELSE /\ i' = 0
            /\ Continue("asm_proof")
            /\ UNCHANGED output
    /\ UNCHANGED <<config, panel, layout, samples, reflines, store, writes, printed>>

\* main.rs:654-661
AssembleProof ==
    /\ pc = "asm_proof"
    /\ IF i < hold_frames
       THEN AssembleStep(AsmProofIndex(i), "asm_proof")
       ELSE /\ i' = 0
            /\ Continue("release")
            /\ UNCHANGED output
    /\ UNCHANGED <<config, panel, layout, samples, reflines, store, writes, printed>>

\* main.rs:663  video_writer.release()?
ReleaseStream ==
    /\ pc = "release"
    /\ \E ok \in BOOLEAN :
          IF ok
          THEN /\ pc' = "print"
               /\ stream' = "released"
               /\ releases' = ReleaseCount(stream, stream', releases)
               /\ UNCHANGED err
          ELSE ReturnErr("release")
    /\ UNCHANGED <<config, panel, i, layout, samples, reflines, store, writes,
                   output, printed>>

\* main.rs:665  println!("Video saved as: {}", output_video)
PrintSuccess ==
    /\ pc = "print"
    /\ printed' = TRUE
    /\ Continue("return")
    /\ UNCHANGED <<config, panel, i, layout, samples, reflines, store, writes,
                   output>>

\* main.rs:667-668: Ok(()) is returned and video_writer goes out of scope.
Return ==
    /\ pc = "return"
    /\ pc' = "done"
    /\ stream' = DropVideoWriter(stream)
    /\ releases' = ReleaseCount(stream, stream', releases)
    /\ UNCHANGED <<config, panel, i, layout, samples, reflines, store, writes,
                   output, printed, err>>

Next ==
    \/ Setup
    \/ CreateDir
    \/ SampleDense
    \/ SampleAnimation
    \/ ReferenceLines
    \/ ComposeFrame
    \/ BuildProofLines
    \/ DrawProofPanel
    \/ WriteProofFrame
    \/ OpenStream
    \/ AssembleAnimation
    \/ AssembleProof
    \/ ReleaseStream
    \/ PrintSuccess
    \/ Return

Spec == Init /\ [][Next]_vars

\* --------------------------------------- the compositor on longer videos
\* video_duration ranges over 0..MaxLongDuration when only sampling and
\* the compositor loop are followed
MaxLongDuration == 11

LongFrameIds == 0 .. (Max(MaxFps * MaxLongDuration, MaxStale) - 1)

InitLong ==
    /\ fps \in 1 .. MaxFps
    /\ video_duration \in 0 .. MaxLongDuration
    /\ scenario \in Scenarios
    /\ pc = "start"
    /\ i = 0
    /\ chart_x_max = 0
    /\ chart_y_max = 0
    /\ trajectory_points = <<>>
    /\ animation_points = <<>>
    /\ operational_range_line = <<>>
    /\ target_distance_line = <<>>
    /\ proof_lines = <<>>
    /\ proof_img = <<>>
    /\ \E n \in 0 .. MaxStale :
          store = [k \in LongFrameIds |->
                      IF k < n THEN StaleFrame(k) ELSE NoFrame]
    /\ writes = [k \in LongFrameIds |-> 0]
    /\ reads = [k \in LongFrameIds |-> 0]
    /\ skipped = {}
    /\ video = <<>>
    /\ stream = "none"
    /\ releases = 0
    /\ printed = FALSE
    /\ err = "none"

\* main.rs:46-440: main up to the end of the compositor loop.
NextCompose ==
    \/ Setup
    \/ CreateDir
    \/ SampleDense
    \/ SampleAnimation
    \/ ReferenceLines
    \/ ComposeFrame

ComposeSpec == InitLong /\ [][NextCompose]_vars

\* ------------------------------------------- the proof panel on any lines
\* a panel of 1 .. MaxPanelLines lines
MaxPanelLines == 3

\* Every line the style rules can tell apart.
PanelLines ==
    [prefix : {"no_entry", "microscope", "bullet", "other"},
     words : SUBSET {"IMPOSSIBLE", "FALSE", "COMPLETE", "SPECIFICATIONS",
                     "VERIFICATION", "rule"}]

\* Panels of plain lines with one arbitrary line at an arbitrary place.
PanelInputs ==
    {[k \in 1 .. n |-> IF k = p THEN l ELSE PlainLine] :
        n \in 1 .. MaxPanelLines, p \in 1 .. MaxPanelLines, l \in PanelLines}

\* main is about to draw the panel (main.rs:517), with any proof lines.
InitPanel ==
    /\ fps \in 1 .. MaxFps
    /\ video_duration = 0
    /\ scenario \in Scenarios
    /\ pc = "panel_draw"
    /\ i = 0
    /\ chart_x_max = ChartXMax(scenario)
    /\ chart_y_max = ChartYMax(scenario)
    /\ trajectory_points = <<>>
    /\ animation_points = <<>>
    /\ operational_range_line =
          << <<scenario.max_range_operational, 0>>,
             <<scenario.max_range_operational, (chart_y_max * 8) \div 10>> >>
    /\ target_distance_line =
          << <<scenario.actual_distance, 0>>,
             <<scenario.actual_distance, (chart_y_max * 8) \div 10>> >>
    /\ proof_lines \in PanelInputs
    /\ proof_img = <<>>
    /\ store = [k \in FrameIds |-> NoFrame]
    /\ writes = [k \in FrameIds |-> 0]
    /\ reads = [k \in FrameIds |-> 0]
    /\ skipped = {}
    /\ video = <<>>
    /\ stream = "none"
    /\ releases = 0
    /\ printed = FALSE
    /\ err = "none"

NextPanel == DrawProofPanel

PanelSpec == InitPanel /\ [][NextPanel]_vars

\* ------------------------------------------------------------------ claims
\* Frames read by the assembler in one run: indices 0 .. FrameCount-1.
FrameCount == total_frames + hold_frames
FrameRange == 0 .. (FrameCount - 1)

\* The loops of the assembler are over; the stream is about to be released
\* or has been.
AssemblyOver == pc \in {"release", "print", "return", "done"}

\* The file indices of the frames handed to the stream, in order.
VideoSources == [a \in 1 .. Len(video) |-> video[a].src]

\* The members of a finite set of integers, in ascending order.
RECURSIVE Ascending(_)
Ascending(S) ==
    IF S = {} THEN <<>>
    ELSE LET m == CHOOSE x \in S : \A y \in S : x <= y
         IN  <<m>> \o Ascending(S \ {m})

\* C1: frames are handed to the video stream in strictly ascending file
\* index, so every animation frame (index < total_frames) comes before every
\* proof-panel frame, and no index outside [0, total_frames + fps*3) is read.
C1_AscendingOrder ==
    /\ \A a, b \in 1 .. Len(video) : a < b => video[a].src < video[b].src
    /\ \A a, b \in 1 .. Len(video) :
          (video[a].src < total_frames /\ video[b].src >= total_frames) => a < b
    /\ \A k \in FrameIds : reads[k] > 0 => k \in FrameRange
    /\ \A a \in 1 .. Len(video) : video[a].src \in FrameRange

C1_Witness ==
    /\ pc = "done"
    /\ \E a, b \in 1 .. Len(video) :
          video[a].src < total_frames /\ video[b].src > total_frames

\* C2: within one run every frame index of [0, total_frames + fps*3) is
\* written exactly once and read exactly once, all writes come before the
\* stream is opened (hence before any read), and no file is written twice.
C2_WrittenOnceReadOnce ==
    /\ \A k \in FrameIds : writes[k] <= 1 /\ reads[k] <= 1
    /\ \A k \in FrameIds : writes[k] > 0 => k \in FrameRange
    /\ stream # "none" => \A k \in FrameRange : writes[k] = 1
    /\ \A k \in FrameIds : reads[k] > 0 => (stream # "none" /\ writes[k] = 1)
    /\ AssemblyOver => \A k \in FrameRange : reads[k] = 1

C2_Witness ==
    /\ pc = "done"
    /\ total_frames > 1
    /\ \A k \in FrameRange : writes[k] = 1 /\ reads[k] = 1

\* C3: a frame whose read gives an empty image is skipped and assembly goes
\* on with the next index; when assembly is over the stream holds exactly the
\* decoded frames, total_frames + fps*3 minus the number skipped.
C3_SkipOnDecodeFailure ==
    /\ pc = "asm_anim" => Len(video) + Cardinality(skipped) = i
    /\ pc = "asm_proof" => Len(video) + Cardinality(skipped) = total_frames + i
    /\ AssemblyOver =>
          /\ Len(video) = FrameCount - Cardinality(skipped)
          /\ VideoSources = Ascending(FrameRange \ skipped)
          /\ skipped = {} => Len(video) = total_frames + fps * 3
    /\ \A a \in 1 .. Len(video) :
          video[a].src \notin skipped /\ video[a].kind # "none"

C3_Witness ==
    /\ pc = "done"
    /\ skipped # {}
    /\ \E a \in 1 .. Len(video) : \E k \in skipped : video[a].src > k

\* C4: once opened, the stream is released exactly once on every exit path:
\* after the last frame on the normal path, and when a frame read or a
\* frame write returns an error.
C4_ReleasedExactlyOnce ==
    /\ releases <= 1
    /\ stream = "released" <=> releases = 1
    /\ pc \in {"print", "return"} => releases = 1
    /\ (pc \in {"done", "aborted"} /\ err \notin
           {"create_dir_all", "present", "proof_panel", "imwrite",
            "VideoWriter::new"})
          => (stream = "released" /\ releases = 1)

C4_Witness ==
    /\ pc = "aborted"
    /\ err \in {"imread", "write"}
    /\ releases = 1

C6_ZeroFrames ==
    total_frames = 0 =>
        /\ pc # "panicked"
        /\ trajectory_points = <<>> /\ animation_points = <<>>
        /\ \A k \in FrameIds : store[k].kind # "anim"
        /\ \A k \in FrameIds :
              writes[k] > 0 => (k < fps * 3 /\ store[k].kind = "proof")
        /\ stream # "none" => \A k \in 0 .. (fps * 3 - 1) : writes[k] = 1
        /\ \A a \in 1 .. Len(video) :
              video[a].src < fps * 3 /\ video[a].kind = "proof"
        /\ (AssemblyOver /\ skipped = {}) =>
              VideoSources = [a \in 1 .. fps * 3 |-> a - 1]

C6_Witness ==
    /\ total_frames = 0
    /\ pc = "done"
    /\ printed
    /\ Len(video) = fps * 3

StaticPart(r) ==
    [r EXCEPT !.active_len = 0, !.marker = <<>>, !.trail_drawn = FALSE,
              !.trail = <<>>]

AnimFiles == {k \in FrameIds : store[k].kind = "anim"}

\* C8: the chart bounds, the reference lines and the legend entries come
\* from the scenario alone and are the same in every animation frame;
\* rendering never changes them, and two frames differ at most in the
\* active-path length and the marker/trail.
C8_LayoutFrameInvariant ==
    /\ pc \notin {"start"} =>
          (chart_x_max = ChartXMax(scenario) /\ chart_y_max = ChartYMax(scenario))
    /\ \A a \in AnimFiles :
          /\ store[a].render.x_max = chart_x_max
          /\ store[a].render.y_max = chart_y_max
          /\ store[a].render.operational_range_line = operational_range_line
          /\ store[a].render.target_distance_line = target_distance_line
          /\ store[a].render.legend = LegendEntries(scenario)
    /\ \A a, b \in AnimFiles :
          StaticPart(store[a].render) = StaticPart(store[b].render)

C8_Witness ==
    /\ pc = "done"
    /\ \E a, b \in AnimFiles :
          /\ store[a].render.marker # store[b].render.marker
          /\ store[a].render.active_len # store[b].render.active_len
          /\ store[a].render.trail # store[b].render.trail

\* The sampling loops are over.
SamplingOver ==
    pc \in {"lines", "render", "panel", "proof", "open", "asm_anim",
            "asm_proof", "release", "print", "return", "done"}

\* C9: sampleAnimation yields exactly total_frames points; point i is the
\* dense point at index min(floor(i * denseLength / total_frames),
\* denseLength - 1), which is in bounds, and the indices do not decrease.
C9_SampleAnimation ==
    LET denseLength == Len(trajectory_points)
        index(k) == Min((k * denseLength) \div total_frames, denseLength - 1)
    IN  /\ pc # "panicked"
        /\ Len(animation_points) <= total_frames
        /\ SamplingOver => Len(animation_points) = total_frames
        /\ \A k \in 0 .. (Len(animation_points) - 1) :
              /\ index(k) \in 0 .. (denseLength - 1)
              /\ animation_points[k + 1] = trajectory_points[index(k) + 1]
              /\ \E d \in 1 .. denseLength :
                    animation_points[k + 1] = trajectory_points[d]
              /\ \A l \in 0 .. k : index(l) <= index(k)

C9_Witness ==
    /\ SamplingOver
    /\ total_frames >= 3
    /\ Len(animation_points) = total_frames
    /\ animation_points[2] # animation_points[3]

\* C10: frame i has a ghost trail exactly when i > 5; the trail then joins
\* the 6 animation points i-5 .. i and ends at the marker of frame i.
C10_GhostTrail ==
    \A n \in AnimFiles :
        LET r == store[n].render
            k == store[n].idx
        IN  /\ r.trail_drawn <=> k > 5
            /\ r.trail_drawn =>
                  /\ Len(r.trail) = 6
                  /\ Len(r.trail) = Min(6, k + 1)
                  /\ \A m \in 1 .. 6 : r.trail[m] = animation_points[k - 5 + m]
                  /\ r.trail[6] = r.marker
            /\ ~r.trail_drawn => r.trail = <<>>

C10_Witness ==
    /\ pc = "done"
    /\ \E n \in AnimFiles : store[n].idx > 5 /\ store[n].render.trail_drawn
    /\ \E n \in AnimFiles : store[n].idx = 5 /\ ~store[n].render.trail_drawn

\* Rule r of the style contract matches the line.
RuleMatches(r, text) ==
    CASE r = 1 -> (text.prefix = "no_entry"
                     \/ text.words \cap {"IMPOSSIBLE", "FALSE"} # {})
      [] r = 2 -> (text.prefix = "microscope" \/ "COMPLETE" \in text.words)
      [] r = 3 -> text.words \cap {"SPECIFICATIONS", "VERIFICATION"} # {}
      [] r = 4 -> "rule" \in text.words
      [] r = 5 -> text.prefix = "bullet"
      [] r = 6 -> TRUE

\* The earliest rule that matches the line.
FirstRule(text) ==
    CHOOSE r \in 1 .. 6 :
        RuleMatches(r, text) /\ \A q \in 1 .. (r - 1) : ~RuleMatches(q, text)

\* The style of each rule: font scale in tenths and colour.
RuleStyle ==
    << <<8, <<0, 0, 200>>>>, <<8, <<0, 150, 0>>>>, <<7, <<200, 0, 0>>>>,
       <<6, <<100, 100, 100>>>>, <<6, <<0, 0, 0>>>>, <<7, <<0, 0, 0>>>> >>

\* C11: every line drawn on the proof panel, left or right column, has the
\* style of the earliest rule it matches in the order (1) IMPOSSIBLE/FALSE,
\* (2) COMPLETE, (3) SPECIFICATIONS/VERIFICATION, (4) separator rule,
\* (5) bullet, (6) default; a line with IMPOSSIBLE gets rule 1 whatever
\* else it matches.
C11_FirstMatchWins ==
    /\ pc = "proof" => Len(proof_img) = Len(proof_lines)
    /\ \A e \in 1 .. Len(proof_img) :
          LET text == proof_img[e].text
          IN  /\ proof_img[e].style = RuleStyle[FirstRule(text)]
              /\ "IMPOSSIBLE" \in text.words => proof_img[e].style = RuleStyle[1]
    /\ \A e, f \in 1 .. Len(proof_img) :
          proof_img[e].text = proof_img[f].text
              => proof_img[e].style = proof_img[f].style

C11_Witness ==
    /\ pc = "proof"
    /\ \E e \in 1 .. Len(proof_img) :
          /\ proof_img[e].column = "right"
          /\ proof_img[e].text.prefix = "bullet"
          /\ {"IMPOSSIBLE", "COMPLETE", "rule"} \subseteq proof_img[e].text.words
          /\ proof_img[e].style = RuleStyle[1]

\* C12: for every scenario the chart x-max is at least the maximum of the
\* theoretical range, the operational range and the target distance, and
\* the operational-range line and the target-distance line of every
\* rendered frame lie inside the x-axis bounds 0 .. x_max.
C12_LinesInsideAxis ==
    /\ pc # "start" =>
          /\ chart_x_max >= scenario.range_theoretical
          /\ chart_x_max >= scenario.max_range_operational
          /\ chart_x_max >= scenario.actual_distance
    /\ \A a \in AnimFiles :
          LET r == store[a].render
          IN  /\ \A q \in 1 .. Len(r.operational_range_line) :
                    r.operational_range_line[q][1] \in 0 .. r.x_max
              /\ \A q \in 1 .. Len(r.target_distance_line) :
                    r.target_distance_line[q][1] \in 0 .. r.x_max

\* The animation frames in the frames directory.
RenderedFiles == {n \in DOMAIN store : store[n].kind = "anim"}

\* C13: in frame i the active trajectory is the dense prefix of length
\* min(floor((i+1) * denseLength / total_frames), denseLength); the length
\* does not decrease with i, is denseLength at the last frame, and the
\* dense index of the marker, floor(i * denseLength / total_frames), lies
\* inside the prefix.
C13_ActivePrefix ==
    \A n \in RenderedFiles :
        LET r == store[n].render
            k == store[n].idx
            denseLength == r.full_path_len
        IN  /\ r.active_len =
                  Min(((k + 1) * denseLength) \div total_frames, denseLength)
            /\ k = total_frames - 1 => r.active_len = denseLength
            /\ (k * denseLength) \div total_frames < r.active_len
            /\ \A m \in RenderedFiles :
                  store[m].idx <= k => store[m].render.active_len <= r.active_len
====
